---- MODULE Spec2Model ----
(***************************************************************************)
(* A model of scripts/quotes.py: the class Folder, which keeps a folder of *)
(* JSON shard files (0.json the header, 1.json .. k.json the data shards)  *)
(* and checks, rewrites and appends to it.                                 *)
(*                                                                         *)
(* A string is a sequence of code points, a quote (a record) a sequence of *)
(* strings.  A JSON document is a record                                   *)
(*     [kind, keys, items, total]                                          *)
(* kind = "list": a bare array, `items` its elements;                      *)
(* kind = "dict": an object, `keys` its keys in order, `items` and `total` *)
(*                the values of the keys "items" and "total" when present  *)
(*                (the values of "chunk_size" and "end" are never read);   *)
(* kind = "corrupt": a file that json.loads cannot parse.                  *)
(* A directory is a function from the number N of a file N.json to its     *)
(* document; a file that does not exist is not in its domain.              *)
(***************************************************************************)
EXTENDS Integers, Sequences, FiniteSets, TLC

MAX_QUOTES_PER_FILE == 100

\* The code points fix_item reads and writes.
NBSP == 160
SPACE == 32
RSQUO == 8217
APOS == 39
LAQUO == 171
RAQUO == 187
DQUOTE == 34

(***************************************************************************)
(* Bounds of the model.                                                    *)
(***************************************************************************)
\* The most data shards a folder starts with.
MaxShards == 3
\* The staging directory starts with any subset of 1.json .. MaxStaged.json.
MaxStaged == 2
\* The most operations (fix, check, add, get_files) run one after the other.
MaxOps == 2
\* The most data shards of the folders on which an operation may be killed.
MaxKillShards == 2
\* The longest string fix_item is applied to.
MaxLen == 4

(***************************************************************************)
(* JSON documents and the Python values read from them.                    *)
(***************************************************************************)
List(items) == [kind |-> "list", keys |-> <<>>, items |-> items, total |-> 0]

Dict(keys, items, total) ==
    [kind |-> "dict", keys |-> keys, items |-> items, total |-> total]

EmptyDict == Dict(<<>>, <<>>, 0)

Corrupt == [kind |-> "corrupt", keys |-> <<>>, items |-> <<>>, total |-> 0]

\* `key in data` for a dict.
HasKey(data, key) == \E i \in 1..Len(data.keys) : data.keys[i] = key

\* data[key] = ... on a dict: a new key goes last, an old one keeps its place.
WithKey(data, key) ==
    IF HasKey(data, key) THEN data.keys ELSE Append(data.keys, key)

\* A Python str seen as a quote: iterating it yields its characters.
KeyChars(key) ==
    CASE key = "total" -> <<116, 111, 116, 97, 108>>
      [] key = "items" -> <<105, 116, 101, 109, 115>>
      [] key = "end" -> <<101, 110, 100>>
      [] key = "chunk_size" -> <<99, 104, 117, 110, 107, 95, 115, 105, 122, 101>>
      [] OTHER -> <<>>

KeyRecord(key) == [i \in 1..Len(KeyChars(key)) |-> <<KeyChars(key)[i]>>]

\* len(value) of a list or a dict.
PyLen(value) ==
    IF value.kind = "list" THEN Len(value.items) ELSE Len(value.keys)

\* The elements iterating a list or a dict yields (a dict yields its keys).
PyIter(value) ==
    IF value.kind = "list" THEN value.items
    ELSE [i \in 1..Len(value.keys) |-> KeyRecord(value.keys[i])]

\* The datatype arguments the callers pass: generic aliases, not the classes.
DictStrAny == "dict[str, Any]"
ListListStr == "list[list[str]]"
NoDatatype == "None"

\* json.loads(file.read_text()) with FileNotFoundError giving {}.
ReadJson(dir, n) == IF n \in DOMAIN dir THEN dir[n] ELSE EmptyDict

\* What open_file yields: the normalisation compares datatype with the classes
\* dict and list by identity.
open_file(dir, n, datatype) ==
    LET data == ReadJson(dir, n)
    IN  IF datatype = "dict" /\ data.kind = "list"
        THEN Dict(<<"items">>, data.items, 0)
        ELSE IF datatype = "list" /\ data.kind = "dict"
        THEN List(IF HasKey(data, "items") THEN data.items ELSE <<>>)
        ELSE data

\* open_file's save: the file written when the with block ends.
WriteJson(dir, n, data) ==
    [i \in DOMAIN dir \cup {n} |-> IF i = n THEN data ELSE dir[i]]

\* file.unlink()
Unlink(dir, n) == [i \in DOMAIN dir \ {n} |-> dir[i]]

get_items(data) ==
    IF data.kind = "dict"
    THEN IF HasKey(data, "items") THEN List(data.items) ELSE data
    ELSE data

(***************************************************************************)
(* fix_item: four str.replace calls, one after the other.                  *)
(***************************************************************************)
RECURSIVE Replace1(_, _, _)
\* s.replace(a, b) for one-character a and b.
Replace1(s, a, b) ==
    IF s = <<>> THEN <<>>
    ELSE <<IF Head(s) = a THEN b ELSE Head(s)>> \o Replace1(Tail(s), a, b)

RECURSIVE Replace2(_, _, _, _)
\* s.replace(a1 a2, b): the occurrences are taken left to right, not overlapping.
Replace2(s, a1, a2, b) ==
    IF Len(s) < 2 THEN s
    ELSE IF s[1] = a1 /\ s[2] = a2
    THEN <<b>> \o Replace2(SubSeq(s, 3, Len(s)), a1, a2, b)
    ELSE <<s[1]>> \o Replace2(Tail(s), a1, a2, b)

\* A fix_item that replaces nothing.
fix_item_unchanged(item) == item

\* A fix_item that replaces the guillemets before the no-break spaces.
fix_item_reordered(item) ==
    Replace1(Replace1(Replace2(Replace2(item, LAQUO, SPACE, DQUOTE),
                               SPACE, RAQUO, DQUOTE),
                      NBSP, SPACE),
             RSQUO, APOS)

fix_item(item) ==
    Replace2(Replace2(Replace1(Replace1(item, NBSP, SPACE), RSQUO, APOS),
                      LAQUO, SPACE, DQUOTE),
             SPACE, RAQUO, DQUOTE)

(***************************************************************************)
(* File names.  A data shard N.json (N >= 1) and the header 0.json are the *)
(* numbers in a directory's domain.  Any other entry of the folder is a    *)
(* stray: its name with what name.endswith(".json") and int(name[:-5])     *)
(* give on it (numeric = FALSE when int() raises ValueError), and where    *)
(* item.resolve() lands: `at` is "folder" for a regular file of the folder,*)
(* "new" for a regular file that is named new (it resolves to new_path     *)
(* itself) and "staged" for a symbolic link to new/<target>.json.          *)
(***************************************************************************)
Name(n) ==
    [text |-> "N.json", json |-> TRUE, numeric |-> TRUE, number |-> n,
     at |-> "folder", target |-> 0]

StrayAbc ==
    [text |-> "abc.json", json |-> TRUE, numeric |-> FALSE, number |-> 0,
     at |-> "folder", target |-> 0]
StrayDoubleZero ==
    [text |-> "00.json", json |-> TRUE, numeric |-> TRUE, number |-> 0,
     at |-> "folder", target |-> 0]
StrayMinusOne ==
    [text |-> "-1.json", json |-> TRUE, numeric |-> TRUE, number |-> -1,
     at |-> "folder", target |-> 0]
StrayNotes ==
    [text |-> "notes.txt", json |-> FALSE, numeric |-> FALSE, number |-> 0,
     at |-> "folder", target |-> 0]
\* A regular file named new, where fix() makes its staging directory.
StrayNew ==
    [text |-> "new", json |-> FALSE, numeric |-> FALSE, number |-> 0,
     at |-> "new", target |-> 0]
\* A symbolic link link.json -> new/1.json.
StrayLink ==
    [text |-> "link.json", json |-> TRUE, numeric |-> FALSE, number |-> 0,
     at |-> "staged", target |-> 1]

\* get_number: [raise, number]; raise is "none" or the exception's class.
get_number(file, zero_ok) ==
    IF ~file.json THEN [raise |-> "ValueError", number |-> 0]
    ELSE IF ~file.numeric THEN [raise |-> "ValueError", number |-> 0]
    ELSE IF zero_ok /\ file.number = 0 THEN [raise |-> "none", number |-> 0]
    ELSE IF file.number <= 0 THEN [raise |-> "ValueError", number |-> 0]
    ELSE [raise |-> "none", number |-> file.number]

get_number_safe(file) ==
    IF get_number(file, FALSE).raise = "ValueError" THEN -1
    ELSE get_number(file, FALSE).number

is_valid_file_name(file) == get_number(file, FALSE).raise = "none"

RECURSIVE SortedSeq(_)
\* sorted(...) of a set of numbers.
SortedSeq(S) ==
    IF S = {} THEN <<>>
    ELSE LET m == CHOOSE x \in S : \A y \in S : x <= y
         IN  <<m>> \o SortedSeq(S \ {m})

RECURSIVE SeqOf(_)
\* The files N.json of a directory as entries, in ascending order.
SeqOf(numbers) ==
    IF numbers = <<>> THEN <<>>
    ELSE <<Name(Head(numbers))>> \o SeqOf(Tail(numbers))

\* An iterdir that descends into the staging directory.
iterdir_recursive(dir, staged, strays) ==
    strays \o SeqOf(SortedSeq(DOMAIN dir))
    \o [i \in 1..Len(SortedSeq(DOMAIN staged)) |->
           [Name(SortedSeq(DOMAIN staged)[i]) EXCEPT
               !.at = "staged", !.target = SortedSeq(DOMAIN staged)[i]]]

\* self.path.iterdir(): the folder's own entries, the strays in the order the
\* directory lists them, then the files N.json.  The directory `new` is an
\* entry but no file, and the files inside it are not entries of the folder.
iterdir(dir, staged, strays) == strays \o SeqOf(SortedSeq(DOMAIN dir))

RECURSIVE Insert(_, _)
\* The entry put into a sorted sequence behind the entries whose key is not
\* above its own.
Insert(seq, entry) ==
    IF seq = <<>> THEN <<entry>>
    ELSE IF get_number_safe(Head(seq)) <= get_number_safe(entry)
    THEN <<Head(seq)>> \o Insert(Tail(seq), entry)
    ELSE <<entry>> \o seq

RECURSIVE sorted(_)
\* sorted(..., key=self.get_number_safe): stable, so that the entries of one
\* key (-1 for every name that is no valid N.json, 0.json included) keep the
\* order of iterdir.
sorted(entries) ==
    IF entries = <<>> THEN <<>>
    ELSE Insert(sorted(SubSeq(entries, 1, Len(entries) - 1)),
                entries[Len(entries)])

\* item.is_file(): it follows a symbolic link, so a link whose target is
\* gone is no file.
is_file(entry, staged) == entry.at = "staged" => entry.target \in DOMAIN staged

RECURSIVE Without(_, _)
\* The entries but the one unlinked.
Without(entries, entry) ==
    IF entries = <<>> THEN <<>>
    ELSE IF Head(entries) = entry THEN Tail(entries)
    ELSE <<Head(entries)>> \o Without(Tail(entries), entry)

RECURSIVE Walk(_, _, _, _, _)
\* The loop of get_files over the entries left to walk.  An entry that
\* resolves to new_path or below it is unlinked at the place it resolves to:
\* a regular file named new is removed, a link into the staging directory
\* loses its target.  An entry with an invalid name is skipped when
\* get_number(zero_ok=True) returns 0 and is warned of and appended when that
\* call returns another number; when the call raises, get_files raises and
\* what was unlinked before stays unlinked.
Walk(entries, staged, strays, files, invalid) ==
    IF entries = <<>>
    THEN [raise |-> "none", files |-> files, invalid |-> invalid,
          staged |-> staged, strays |-> strays]
    ELSE LET entry == Head(entries)
             rest == Tail(entries)
         IN  IF ~is_file(entry, staged)
             THEN Walk(rest, staged, strays, files, invalid)
             ELSE IF entry.at = "new"
             THEN Walk(rest, staged, Without(strays, entry), files, invalid)
             ELSE IF entry.at = "staged"
             THEN Walk(rest, Unlink(staged, entry.target), strays, files, invalid)
             ELSE IF ~is_valid_file_name(entry)
             THEN IF get_number(entry, TRUE).raise # "none"
                  THEN [raise |-> "ValueError", files |-> <<>>, invalid |-> {},
                        staged |-> staged, strays |-> strays]
                  ELSE IF get_number(entry, TRUE).number = 0
                  THEN Walk(rest, staged, strays, files, invalid)
                  ELSE Walk(rest, staged, strays, files, invalid \cup {entry})
             ELSE Walk(rest, staged, strays, Append(files, entry.number), invalid)

\* get_files: [raise, files, invalid, staged, strays]: files the numbers of
\* the files returned under a valid name, invalid the entries returned, with
\* a warning, under an invalid one, staged and strays the staging directory
\* and the stray entries as the unlinks of the walk left them.
get_files(dir, staged, strays) ==
    Walk(sorted(iterdir(dir, staged, strays)), staged, strays, <<>>, {})

RECURSIVE SumLen(_, _)
\* The loop of get_total: total += len(get_items(data)) for each file.
SumLen(dir, files) ==
    IF files = <<>> THEN 0
    ELSE PyLen(get_items(open_file(dir, Head(files), ListListStr)))
         + SumLen(dir, Tail(files))

AnyCorrupt(dir, files) ==
    \E i \in 1..Len(files) : ReadJson(dir, files[i]).kind = "corrupt"

\* The body of get_total below its first line, for the files it was given
\* or has listed: [raise, total].
total_of(dir, files) ==
    LET header == open_file(dir, 0, DictStrAny)
        all == IF header.kind = "dict" /\ HasKey(header, "items")
               THEN <<0>> \o files ELSE files
    IN  IF header.kind = "corrupt"
        THEN [raise |-> "JSONDecodeError", total |-> 0]
        ELSE IF header.kind = "list"
        THEN [raise |-> "AttributeError", total |-> 0]
        ELSE IF AnyCorrupt(dir, all)
        THEN [raise |-> "JSONDecodeError", total |-> 0]
        ELSE [raise |-> "none", total |-> SumLen(dir, all)]

\* get_total after its own walk of the folder.
total_walked(dir, again) ==
    IF again.raise # "none"
    THEN [raise |-> again.raise, total |-> 0,
          staged |-> again.staged, strays |-> again.strays]
    ELSE total_of(dir, again.files)
         @@ [staged |-> again.staged, strays |-> again.strays]

\* get_total: [raise, total, staged, strays].  `files or self.get_files()`:
\* called without files, or with an empty list, it walks the folder itself,
\* and staged and strays are the staging directory and the stray entries as
\* that walk left them.
get_total(dir, staged, strays, files) ==
    IF files = <<>>
    THEN total_walked(dir, get_files(dir, staged, strays))
    ELSE total_of(dir, files) @@ [staged |-> staged, strays |-> strays]

(***************************************************************************)
(* check and check_file: [raise, warns], warns the set of <<kind, file>>   *)
(* warnings emitted before the function returned or raised (check also     *)
(* gives the staging directory and the strays as get_files and get_total   *)
(* left them).                                                             *)
(***************************************************************************)
NonAscii(items) ==
    \E i \in 1..Len(items) :
        \E j \in 1..Len(items[i]) : fix_item(items[i][j]) # items[i][j]

check_file(dir, file, last) ==
    LET old_data == open_file(dir, file, NoDatatype)
        isDict == old_data.kind = "dict"
        data == IF isDict
                THEN List(IF HasKey(old_data, "items") THEN old_data.items ELSE <<>>)
                ELSE old_data
        number_of_items == PyLen(get_items(data))
    IN  IF old_data.kind = "corrupt"
        THEN [raise |-> "JSONDecodeError", warns |-> {}]
        ELSE [raise |-> "none",
              warns |->
                  (IF isDict THEN {<<"dict_shard", file>>} ELSE {})
                  \cup (IF isDict /\ ~HasKey(old_data, "items")
                        THEN {<<"no_items", file>>} ELSE {})
                  \cup (IF number_of_items > MAX_QUOTES_PER_FILE
                           \/ (~last /\ number_of_items < MAX_QUOTES_PER_FILE)
                        THEN {<<"shard_size", file>>} ELSE {})
                  \cup (IF NonAscii(PyIter(get_items(data)))
                        THEN {<<"non_ascii", file>>} ELSE {})]

RECURSIVE CheckFiles(_, _, _)
\* The loop of check over the files: it stops at the first one that raises.
CheckFiles(dir, files, warns) ==
    IF files = <<>> THEN [raise |-> "none", warns |-> warns]
    ELSE LET one == check_file(dir, Head(files), Len(files) = 1)
         IN  IF one.raise # "none"
             THEN [raise |-> one.raise, warns |-> warns \cup one.warns]
             ELSE CheckFiles(dir, Tail(files), warns \cup one.warns)

check(dir, staged, strays) ==
    LET got == get_files(dir, staged, strays)
        sum == get_total(dir, got.staged, got.strays, got.files)
        old_data == open_file(dir, 0, NoDatatype)
        data == IF old_data.kind = "dict" THEN old_data
                ELSE Dict(<<"items">>, old_data.items, 0)
        w1 == IF old_data.kind = "dict" THEN {} ELSE {<<"no_dict_header", 0>>}
        stored == IF HasKey(data, "total") THEN data.total ELSE 0
        w2 == IF stored # sum.total THEN w1 \cup {<<"total_mismatch", 0>>} ELSE w1
        w3 == IF HasKey(data, "items") THEN w2 \cup {<<"header_items", 0>>} ELSE w2
        body ==
            IF got.raise # "none" THEN [raise |-> got.raise, warns |-> {}]
            ELSE IF sum.raise # "none" THEN [raise |-> sum.raise, warns |-> {}]
            ELSE IF old_data.kind = "corrupt"
            THEN [raise |-> "JSONDecodeError", warns |-> {}]
            \* the warning's text reads data['total']
            ELSE IF stored # sum.total /\ ~HasKey(data, "total")
            THEN [raise |-> "KeyError", warns |-> w1]
            ELSE CheckFiles(dir, got.files, w3)
        reached == got.raise = "none"
    IN  [raise |-> body.raise, warns |-> body.warns,
         staged |-> IF reached THEN sum.staged ELSE got.staged,
         strays |-> IF reached THEN sum.strays ELSE got.strays]

(***************************************************************************)
(* fill_file, the closure of fix: [raise, wrote, staged, stack, index].    *)
(* The staged file is opened with datatype list[list[str]]; data[:] = ...  *)
(* on a dict raises TypeError where slices are not hashable (before Python *)
(* 3.12); where they are, the assignment succeeds and json.dump raises     *)
(* TypeError on the slice key after the file was opened for writing, which *)
(* leaves it unparseable.  sliceHashable says which interpreter runs.      *)
(***************************************************************************)
Min(a, b) == IF a < b THEN a ELSE b

fill_file(staged, stack, filename_index, end, sliceHashable) ==
    LET same == [raise |-> "none", wrote |-> FALSE, staged |-> staged,
                 stack |-> stack, index |-> filename_index]
        data == open_file(staged, filename_index, ListListStr)
        n == Min(Len(stack), MAX_QUOTES_PER_FILE)
    IN  IF stack # <<>> /\ (end \/ Len(stack) > MAX_QUOTES_PER_FILE)
        THEN IF data.kind = "corrupt"
             THEN [same EXCEPT !.raise = "JSONDecodeError"]
             ELSE IF data.kind = "dict"
             THEN [same EXCEPT !.raise = "TypeError",
                               !.staged = IF sliceHashable
                                          THEN WriteJson(staged, filename_index, Corrupt)
                                          ELSE staged]
             ELSE [raise |-> "none", wrote |-> TRUE,
                   staged |-> WriteJson(staged, filename_index,
                                        List(SubSeq(stack, 1, n))),
                   stack |-> SubSeq(stack, n + 1, Len(stack)),
                   index |-> filename_index + 1]
        ELSE same

(***************************************************************************)
(* The state: the folder on disk and the one operation in progress.        *)
(***************************************************************************)
VARIABLES
    disk,            \* the folder: the number N of each N.json |-> its document
    staged,          \* the staging directory `new`, likewise
    newDir,          \* whether the staging directory exists
    strays,          \* the folder's entries that are no N.json, as listed
    op,              \* the operation running, or the last one that ran
    pc,              \* where it is; "idle" between operations
    outcome,         \* how it ended: "returned" or its exception
    prev,            \* the operation before it and how that one ended
    nops,            \* the operations started so far
    before,          \* the folder as the operation found it
    quote,           \* the argument of add
    warns,           \* the warnings of check that reached the caller
    files,           \* fix: the files still to drain
    total,           \* fix: the total computed before mutation
    stack,           \* fix: the quotes read and not yet staged
    filename_index,  \* fix: the number of the next staged file
    enumerated,      \* what get_files() returned to its caller
    counted,         \* what get_total() returned to its caller
    item,            \* the string fix_item is applied to
    fixed            \* the results of fix_item applied to it, over and over

vars == <<disk, staged, newDir, strays, op, pc, outcome, prev, nops, before,
          quote, warns, files, total, stack, filename_index, enumerated, counted,
          item, fixed>>

locals == <<files, total, stack, filename_index>>

(***************************************************************************)
(* The folders the operations start from.                                  *)
(***************************************************************************)
\* The record counts of the data shards.
ShardSizes == {5, 60, 100}

\* The i-th quote of a folder: one field of one letter, or of the letter
\* twice around a no-break space.
Quote(i, dirty) ==
    << <<1000 + i>> \o (IF dirty THEN <<NBSP, 1000 + i>> ELSE <<>>) >>

RECURSIVE SumSeq(_)
SumSeq(sizes) == IF sizes = <<>> THEN 0 ELSE Head(sizes) + SumSeq(Tail(sizes))

Layouts == UNION {[1..n -> ShardSizes] : n \in 0..MaxShards}

Faults == {"none", "header_absent", "header_wrong_total", "header_no_total",
           "header_items", "header_list", "shard_dict", "shard_no_items",
           "dirty_text", "gap", "stray_abc", "stray_00", "stray_minus",
           "stray_notes", "shard_over", "new_file", "new_file_abc",
           "abc_new_file", "link"}

HeaderItems == <<Quote(901, FALSE), Quote(902, FALSE)>>

\* The records of the k-th shard: one more than the cap in the last shard of
\* a folder with an oversized shard.
InitSize(sizes, k, fault) ==
    IF k = Len(sizes) /\ fault = "shard_over" THEN MAX_QUOTES_PER_FILE + 1
    ELSE sizes[k]

InitHeader(sizes, fault) ==
    LET n == SumSeq([k \in 1..Len(sizes) |-> InitSize(sizes, k, fault)])
    IN  CASE fault = "header_wrong_total" -> Dict(<<"total", "chunk_size">>, <<>>, n + 1)
          [] fault = "header_no_total" -> Dict(<<"chunk_size">>, <<>>, 0)
          [] fault = "header_items" ->
                Dict(<<"total", "items">>, HeaderItems, n + Len(HeaderItems))
          [] fault = "header_list" -> List(HeaderItems)
          [] OTHER -> Dict(<<"total", "chunk_size">>, <<>>, n)

InitShard(sizes, k, fault) ==
    LET first == SumSeq(SubSeq(sizes, 1, k - 1))
        items == [i \in 1..InitSize(sizes, k, fault) |->
                     Quote(first + i, fault = "dirty_text" /\ first + i = 1)]
    IN  IF k = Len(sizes) /\ fault = "shard_dict"
        THEN Dict(<<"items", "end">>, items, 0)
        ELSE IF k = Len(sizes) /\ fault = "shard_no_items"
        THEN Dict(<<"total", "end">>, <<>>, sizes[k])
        ELSE List(items)

\* The number of the k-th shard's file: a gap leaves the number before the
\* last shard's unused.
InitNumber(sizes, k, fault) ==
    IF k = Len(sizes) /\ fault = "gap" THEN k + 1 ELSE k

InitDisk(sizes, fault) ==
    LET numbers == {InitNumber(sizes, k, fault) : k \in 1..Len(sizes)}
        shardOf(n) == CHOOSE k \in 1..Len(sizes) : InitNumber(sizes, k, fault) = n
    IN  [n \in numbers \cup (IF fault = "header_absent" THEN {} ELSE {0}) |->
            IF n = 0 THEN InitHeader(sizes, fault)
            ELSE InitShard(sizes, shardOf(n), fault)]

\* Files an earlier, interrupted rewrite staged: bare arrays of one stale quote.
InitStaged(debris) == [n \in debris |-> List(<<Quote(800 + n, FALSE)>>)]

\* The strays, in the order the directory lists them.
InitStrays(fault) ==
    CASE fault = "stray_abc" -> <<StrayAbc>>
      [] fault = "stray_00" -> <<StrayDoubleZero>>
      [] fault = "stray_minus" -> <<StrayMinusOne>>
      [] fault = "stray_notes" -> <<StrayNotes>>
      [] fault = "new_file" -> <<StrayNew>>
      [] fault = "new_file_abc" -> <<StrayNew, StrayAbc>>
      [] fault = "abc_new_file" -> <<StrayAbc, StrayNew>>
      [] fault = "link" -> <<StrayLink>>
      [] OTHER -> <<>>

\* The entries of a sequence.
Range(seq) == {seq[i] : i \in 1..Len(seq)}

\* What an operation finds: the files, the staging directory and the strays.
Found == [disk |-> disk, staged |-> staged, newDir |-> newDir, strays |-> strays]

NoOp == [op |-> "none", outcome |-> "none"]

\* No call of get_files() has returned to the caller yet.
NoFiles == [files |-> <<>>, invalid |-> {}]

(***************************************************************************)
(* add_quote.py: the three answers are stripped, the empty ones at the end *)
(* are dropped, and the list is handed to add.                             *)
(***************************************************************************)
\* The characters of the model str.strip() removes.
Whitespace == {SPACE, NBSP}

RECURSIVE LStrip(_)
LStrip(s) ==
    IF s # <<>> /\ Head(s) \in Whitespace THEN LStrip(Tail(s)) ELSE s

RECURSIVE RStrip(_)
RStrip(s) ==
    IF s # <<>> /\ s[Len(s)] \in Whitespace
    THEN RStrip(SubSeq(s, 1, Len(s) - 1)) ELSE s

\* input(...).strip()
strip(s) == RStrip(LStrip(s))

RECURSIVE PopEmpty(_)
\* while item and not item[-1]: item.pop()
PopEmpty(fields) ==
    IF fields # <<>> /\ fields[Len(fields)] = <<>>
    THEN PopEmpty(SubSeq(fields, 1, Len(fields) - 1)) ELSE fields

\* The list add_quote.py hands to add for the answers to Quote, Author, Book.
add_quote(answers) == PopEmpty([i \in 1..Len(answers) |-> strip(answers[i])])

\* The answers typed: a letter, and a letter twice around a no-break space
\* with a space before and a no-break space after; no author, no book.
Answers ==
    {<<Quote(700, FALSE)[1], <<>>, <<>> >>,
     <<(<<SPACE>> \o Quote(701, TRUE)[1]) \o <<NBSP>>, <<>>, <<>> >>}

\* The quotes add is called with.
NewQuotes == {add_quote(answers) : answers \in Answers}

Init ==
    /\ \E sizes \in Layouts, fault \in Faults :
          /\ disk = InitDisk(sizes, fault)
          /\ strays = InitStrays(fault)
    /\ \E debris \in SUBSET (1..MaxStaged) :
          /\ staged = InitStaged(debris)
          /\ newDir = (debris # {})
    \* a name is a file or a directory, and the link has a target
    /\ StrayNew \in Range(strays) => ~newDir
    /\ StrayLink \in Range(strays) => StrayLink.target \in DOMAIN staged
    /\ op = "none"
    /\ pc = "idle"
    /\ outcome = "none"
    /\ prev = NoOp
    /\ nops = 0
    /\ before = Found
    /\ quote = <<>>
    /\ warns = {}
    /\ files = <<>>
    /\ total = 0
    /\ stack = <<>>
    /\ filename_index = 1
    /\ enumerated = NoFiles
    /\ counted = 0
    /\ item = <<>>
    /\ fixed = <<>>

(***************************************************************************)
(* Starting and ending an operation.                                       *)
(***************************************************************************)
Start(name, at) ==
    /\ pc = "idle"
    /\ nops < MaxOps
    /\ op' = name
    /\ pc' = at
    /\ prev' = [op |-> op, outcome |-> outcome]
    /\ nops' = nops + 1
    /\ before' = Found

\* The operation returns, or raises `result`: its locals are gone.  An
\* exception first unwinds through the frames of the call; a return and a
\* kill end the call at once.
Finish(result) ==
    /\ pc' = IF result \in {"returned", "killed"} THEN "idle" ELSE "unwinding"
    /\ outcome' = result
    /\ files' = <<>>
    /\ total' = 0
    /\ stack' = <<>>
    /\ filename_index' = 1

caller == <<op, prev, nops, before, quote, warns, enumerated, counted, item, fixed>>

running == <<strays, caller>>

(***************************************************************************)
(* check(), called on its own: it saves nothing, so it is one step.        *)
(***************************************************************************)
Check ==
    /\ Start("check", "idle")
    /\ \E r \in {check(disk, staged, strays)} :
           /\ staged' = r.staged
           /\ strays' = r.strays
           /\ outcome' = IF r.raise = "none" THEN "returned" ELSE r.raise
           /\ warns' = r.warns
    /\ UNCHANGED <<disk, newDir, quote, locals, enumerated, counted, item, fixed>>

(***************************************************************************)
(* fix(), one step for each change it makes to the disk.                   *)
(***************************************************************************)
StartFix ==
    /\ Start("fix", "fix_mkdir")
    /\ outcome' = "running"
    /\ warns' = {}
    /\ UNCHANGED <<disk, staged, newDir, strays, quote, locals, enumerated, counted,
                   item, fixed>>

\* new_path.mkdir, then files = get_files() and total = get_total(files).
\* mkdir(exist_ok=True) raises FileExistsError on a regular file named new.
FixMkdir ==
    /\ pc = "fix_mkdir"
    /\ IF StrayNew \in Range(strays)
       THEN Finish("FileExistsError") /\ UNCHANGED <<staged, newDir, strays>>
       ELSE LET got == get_files(disk, staged, strays)
                sum == get_total(disk, got.staged, got.strays, got.files)
                reached == got.raise = "none"
            IN  /\ newDir' = TRUE
                /\ staged' = IF reached THEN sum.staged ELSE got.staged
                /\ strays' = IF reached THEN sum.strays ELSE got.strays
                /\ IF got.raise # "none" THEN Finish(got.raise)
                   ELSE IF sum.raise # "none" THEN Finish(sum.raise)
                   ELSE /\ pc' = "fix_header"
                        /\ files' = got.files
                        /\ total' = sum.total
                        /\ UNCHANGED <<outcome, stack, filename_index>>
    /\ UNCHANGED <<disk, caller>>

\* The header is opened with save=True and written back as read; a header
\* with items goes first in the files to drain.
FixHeader ==
    /\ pc = "fix_header"
    /\ LET data == open_file(disk, 0, DictStrAny)
       IN  IF data.kind = "corrupt"
           THEN Finish("JSONDecodeError") /\ UNCHANGED disk
           ELSE IF data.kind = "list"
           THEN Finish("AttributeError") /\ UNCHANGED disk
           ELSE /\ disk' = WriteJson(disk, 0, data)
                /\ files' = IF HasKey(data, "items") THEN <<0>> \o files ELSE files
                /\ filename_index' = 1
                /\ stack' = <<>>
                /\ pc' = "fix_drain"
                /\ UNCHANGED <<outcome, total>>
    /\ UNCHANGED <<staged, newDir, running>>

\* One turn of the loop over the files, up to the unlink: the file's quotes
\* join the stack and fill_file() stages one full chunk if the stack holds
\* more than the cap.
FixDrain ==
    /\ pc = "fix_drain"
    /\ files # <<>>
    /\ LET data == open_file(disk, Head(files), ListListStr)
       IN  IF data.kind = "corrupt"
           THEN Finish("JSONDecodeError") /\ UNCHANGED staged
           ELSE \E sliceHashable \in BOOLEAN :
                  LET r == fill_file(staged, stack \o PyIter(get_items(data)),
                                     filename_index, FALSE, sliceHashable)
                  IN  /\ staged' = r.staged
                      /\ IF r.raise # "none" THEN Finish(r.raise)
                         ELSE /\ stack' = r.stack
                              /\ filename_index' = r.index
                              /\ pc' = "fix_unlink"
                              /\ UNCHANGED <<outcome, files, total>>
    /\ UNCHANGED <<disk, newDir, running>>

\* A fix that defers the removal of the drained files.
FixUnlinkDeferred ==
    /\ pc = "fix_unlink"
    /\ files' = Tail(files)
    /\ pc' = "fix_drain"
    /\ UNCHANGED <<disk, staged, newDir, outcome, total, stack, filename_index,
                   running>>

\* file.unlink(): the drained file is removed.
FixUnlink ==
    /\ pc = "fix_unlink"
    /\ disk' = Unlink(disk, Head(files))
    /\ files' = Tail(files)
    /\ pc' = "fix_drain"
    /\ UNCHANGED <<staged, newDir, outcome, total, stack, filename_index, running>>

\* new/0.json gets total and chunk_size, on top of what it held.
FixStageHeader ==
    /\ pc = "fix_drain"
    /\ files = <<>>
    /\ LET data == open_file(staged, 0, DictStrAny)
       IN  IF data.kind = "corrupt"
           THEN Finish("JSONDecodeError") /\ UNCHANGED staged
           ELSE IF data.kind = "list"
           THEN Finish("TypeError") /\ UNCHANGED staged
           ELSE /\ staged' = WriteJson(staged, 0,
                      Dict(WithKey([data EXCEPT !.keys = WithKey(data, "total")],
                                   "chunk_size"),
                           data.items, total))
                /\ pc' = "fix_flush"
                /\ UNCHANGED <<outcome, locals>>
    /\ UNCHANGED <<disk, newDir, running>>

\* while fill_file(): pass, one staged file a step, then fill_file(end=True).
FixFlush ==
    /\ pc = "fix_flush"
    /\ \E sliceHashable \in BOOLEAN :
          LET full == fill_file(staged, stack, filename_index, FALSE, sliceHashable)
              rest == fill_file(staged, stack, filename_index, TRUE, sliceHashable)
              r == IF full.raise # "none" \/ full.wrote THEN full ELSE rest
          IN  /\ staged' = r.staged
              /\ IF r.raise # "none" THEN Finish(r.raise)
                 ELSE /\ stack' = r.stack
                      /\ filename_index' = r.index
                      /\ pc' = IF full.wrote THEN "fix_flush" ELSE "fix_move"
                      /\ UNCHANGED <<outcome, files, total>>
    /\ UNCHANGED <<disk, newDir, running>>

\* file.rename(...): the entries of `new`, in the order iterdir gives them,
\* replace the folder's files of the same name.
FixMove ==
    /\ pc = "fix_move"
    /\ \E n \in DOMAIN staged :
          /\ disk' = WriteJson(disk, n, staged[n])
          /\ staged' = Unlink(staged, n)
    /\ UNCHANGED <<newDir, pc, outcome, locals, running>>

\* new_path.rmdir(), and fix returns.
FixRmdir ==
    /\ pc = "fix_move"
    /\ DOMAIN staged = {}
    /\ newDir' = FALSE
    /\ Finish("returned")
    /\ UNCHANGED <<disk, staged, running>>

(***************************************************************************)
(* add(quote): the append, then check() and fix() with warnings ignored.   *)
(***************************************************************************)
StartAdd ==
    /\ Start("add", "add_append")
    /\ outcome' = "running"
    /\ warns' = {}
    /\ \E q \in NewQuotes : quote' = q
    /\ UNCHANGED <<disk, staged, newDir, strays, locals, enumerated, counted, item,
                   fixed>>

\* file = get_files()[-1]; the file is written back as read; the quote is
\* appended to it, or to the next number's file when it holds the cap.
AddAppend ==
    /\ pc = "add_append"
    /\ LET got == get_files(disk, staged, strays)
           file == got.files[Len(got.files)]
           data == open_file(disk, file, ListListStr)
           target == IF PyLen(data) >= MAX_QUOTES_PER_FILE
                     THEN get_number(Name(file), FALSE).number + 1 ELSE file
           into == open_file(disk, target, ListListStr)
       IN  /\ staged' = got.staged
           /\ strays' = got.strays
           /\ IF got.raise # "none" THEN Finish(got.raise) /\ UNCHANGED disk
              ELSE IF got.files = <<>> THEN Finish("IndexError") /\ UNCHANGED disk
              ELSE IF data.kind = "corrupt" \/ into.kind = "corrupt"
              THEN Finish("JSONDecodeError") /\ UNCHANGED disk
              \* data.append on a dict
              ELSE IF into.kind = "dict"
              THEN Finish("AttributeError") /\ UNCHANGED disk
              ELSE /\ disk' = WriteJson(disk, target, List(Append(into.items, quote)))
                   /\ pc' = "add_check"
                   /\ UNCHANGED <<outcome, locals>>
    /\ UNCHANGED <<newDir, caller>>

\* self.check() inside catch_warnings(action="ignore"): no warning reaches
\* the caller; an exception does.
AddCheck ==
    /\ pc = "add_check"
    /\ \E r \in {check(disk, staged, strays)} :
           /\ staged' = r.staged
           /\ strays' = r.strays
           /\ IF r.raise # "none" THEN Finish(r.raise)
              ELSE pc' = "fix_mkdir" /\ UNCHANGED <<outcome, locals>>
    /\ UNCHANGED <<disk, newDir, caller>>

(***************************************************************************)
(* get_files(), called on its own.                                         *)
(***************************************************************************)
GetFiles ==
    /\ Start("get_files", "idle")
    /\ \E r \in {get_files(disk, staged, strays)} :
           /\ staged' = r.staged
           /\ strays' = r.strays
           /\ outcome' = IF r.raise = "none" THEN "returned" ELSE r.raise
           /\ warns' = {<<"invalid_name", e.text>> : e \in r.invalid}
           /\ enumerated' = [files |-> r.files, invalid |-> r.invalid]
    /\ UNCHANGED <<disk, newDir, quote, locals, counted, item, fixed>>

(***************************************************************************)
(* get_total(), called on its own and without files: it walks the folder.  *)
(***************************************************************************)
GetTotal ==
    /\ Start("get_total", "idle")
    /\ \E r \in {get_total(disk, staged, strays, <<>>)} :
           /\ staged' = r.staged
           /\ strays' = r.strays
           /\ outcome' = IF r.raise = "none" THEN "returned" ELSE r.raise
           /\ counted' = r.total
    \* get_total hands no list back, and its walk warns of no entry
    /\ warns' = {}
    /\ UNCHANGED <<disk, newDir, quote, locals, enumerated, item, fixed>>

\* The exception has left fix() or add(): it reaches the caller.
Unwind ==
    /\ pc = "unwinding"
    /\ pc' = "idle"
    /\ UNCHANGED <<disk, staged, newDir, outcome, locals, running>>

Next ==
    \/ Check
    \/ GetFiles
    \/ GetTotal
    \/ Unwind
    \/ StartFix
    \/ FixMkdir
    \/ FixHeader
    \/ FixDrain
    \/ FixUnlink
    \/ FixStageHeader
    \/ FixFlush
    \/ FixMove
    \/ FixRmdir
    \/ StartAdd
    \/ AddAppend
    \/ AddCheck

Spec == Init /\ [][Next]_vars

(***************************************************************************)
(* The same operations when the process may be killed between two steps of *)
(* fix() or add(): the disk stays as the last step left it.  The folders   *)
(* start readable, with an object header and at most MaxKillShards shards. *)
(***************************************************************************)
\* The file the step about to run saves (open_file truncates it, then writes
\* it): [dir, n], dir "disk", "staged" or "none" when the step saves nothing.
\* fill_file saves the staged file it read as an array and, where slices are
\* hashable, the one it read as an object (json.dump then raises).
Saving(sliceHashable) ==
    LET none == [dir |-> "none", n |-> 0]
        header == open_file(disk, 0, DictStrAny)
        stagedHeader == open_file(staged, 0, DictStrAny)
        got == get_files(disk, staged, strays)
        last == got.files[Len(got.files)]
        drained == open_file(disk, Head(files), ListListStr)
        chunk == fill_file(staged, stack \o PyIter(get_items(drained)),
                           filename_index, FALSE, sliceHashable)
        full == fill_file(staged, stack, filename_index, FALSE, sliceHashable)
        rest == fill_file(staged, stack, filename_index, TRUE, sliceHashable)
        flushed == IF full.raise # "none" \/ full.wrote THEN full ELSE rest
        saves(r) == r.wrote \/ (sliceHashable /\ r.raise = "TypeError")
    IN  CASE pc = "fix_header" ->
                 IF header.kind = "dict" THEN [dir |-> "disk", n |-> 0] ELSE none
          [] pc = "fix_drain" /\ files # <<>> ->
                 IF drained.kind # "corrupt" /\ saves(chunk)
                 THEN [dir |-> "staged", n |-> filename_index] ELSE none
          [] pc = "fix_drain" /\ files = <<>> ->
                 IF stagedHeader.kind = "dict"
                 THEN [dir |-> "staged", n |-> 0] ELSE none
          [] pc = "fix_flush" ->
                 IF saves(flushed) THEN [dir |-> "staged", n |-> filename_index]
                 ELSE none
          [] pc = "add_append" ->
                 IF got.raise = "none" /\ got.files # <<>>
                    /\ ReadJson(disk, last).kind # "corrupt"
                 THEN [dir |-> "disk", n |-> last] ELSE none
          [] OTHER -> none

\* The process is killed between two steps, or while an exception unwinds.
Kill ==
    /\ pc # "idle"
    /\ Finish("killed")
    /\ UNCHANGED <<disk, staged, newDir, running>>

\* The process is killed inside a save, after the file was truncated and
\* before its text reached the disk: the file is left unparseable.
KillInSave ==
    /\ pc # "idle"
    /\ \E sliceHashable \in BOOLEAN :
          LET save == Saving(sliceHashable)
          IN  /\ save.dir # "none"
              /\ disk' = IF save.dir = "disk"
                         THEN WriteJson(disk, save.n, Corrupt) ELSE disk
              /\ staged' = IF save.dir = "staged"
                           THEN WriteJson(staged, save.n, Corrupt) ELSE staged
    /\ Finish("killed")
    /\ UNCHANGED <<newDir, running>>

\* The process is killed after new_path.rmdir() and before fix returns.
KillAtEnd ==
    /\ pc = "fix_move"
    /\ DOMAIN staged = {}
    /\ newDir' = FALSE
    /\ Finish("killed")
    /\ UNCHANGED <<disk, staged, running>>

InitKill ==
    /\ Init
    /\ strays = <<>>
    /\ 0 \in DOMAIN disk
    /\ disk[0].kind = "dict"
    /\ HasKey(disk[0], "total")
    /\ \A n \in DOMAIN disk \ {0} : n <= MaxKillShards /\ disk[n].kind = "list"

NextKill == Next \/ Kill \/ KillInSave \/ KillAtEnd

SpecKill == InitKill /\ [][NextKill]_vars

(***************************************************************************)
(* What the claims speak of.                                               *)
(***************************************************************************)
\* The numbers of a directory's data shards.
DataShards(dir) == DOMAIN dir \ {0}

\* The records a file stores: the array, or the object's `items`.
ShardRecords(doc) ==
    IF doc.kind = "list" \/ (doc.kind = "dict" /\ HasKey(doc, "items"))
    THEN doc.items ELSE <<>>

RECURSIVE Concat(_, _)
Concat(dir, numbers) ==
    IF numbers = <<>> THEN <<>>
    ELSE ShardRecords(dir[Head(numbers)]) \o Concat(dir, Tail(numbers))

\* The folder's records: the header's inline items, then the data shards in
\* ascending order of their numbers.
Records(dir) ==
    (IF 0 \in DOMAIN dir THEN ShardRecords(dir[0]) ELSE <<>>)
    \o Concat(dir, SortedSeq(DataShards(dir)))

\* The sum of the record counts of the data shards.
RECURSIVE CountIn(_, _)
CountIn(dir, numbers) ==
    IF numbers = {} THEN 0
    ELSE LET n == CHOOSE x \in numbers : TRUE
         IN  Len(ShardRecords(dir[n])) + CountIn(dir, numbers \ {n})

LastShard(dir) == CHOOSE n \in DataShards(dir) : \A m \in DataShards(dir) : m <= n

Returned(name) == op = name /\ pc = "idle" /\ outcome = "returned"

\* The call is over: it returned, or an exception left it.
Over(name) == op = name /\ pc = "idle" /\ outcome # "none"

\* The folder as the call found it holds only files json.loads parses, all
\* named N.json: none of the hard errors of reading a folder can occur.
Readable ==
    /\ before.strays = <<>>
    /\ \A n \in DOMAIN before.disk : before.disk[n].kind # "corrupt"
    /\ \A n \in DOMAIN before.staged : before.staged[n].kind # "corrupt"

\* Readable, and the header, if there is one, is an object.
Plain ==
    /\ Readable
    /\ 0 \in DOMAIN before.disk => before.disk[0].kind = "dict"

\* C1: when a call of fix() is over, the folder's records (the header's
\* inline items, then the data shards in ascending order) are the records it
\* held when the call started, in the same order: none is lost, duplicated,
\* altered or moved.
C1_RecordOrderPreserved ==
    (Over("fix") /\ Plain) => Records(disk) = Records(before.disk)

\* C2: when a call of fix() is over, every data shard but the last holds
\* exactly MAX_QUOTES_PER_FILE records and the last holds at most that many.
C2_ShardSizing ==
    (Over("fix") /\ Plain) =>
        \A n \in DataShards(disk) :
            /\ Len(ShardRecords(disk[n])) <= MAX_QUOTES_PER_FILE
            /\ n # LastShard(disk) =>
                  Len(ShardRecords(disk[n])) = MAX_QUOTES_PER_FILE

\* C3: when a call of fix() is over, the header 0.json carries a total equal
\* to the sum of the record counts of the data shards then in the folder.
C3_HeaderTotal ==
    (Over("fix") /\ Plain) =>
        /\ 0 \in DOMAIN disk
        /\ disk[0].kind = "dict"
        /\ HasKey(disk[0], "total")
        /\ disk[0].total = CountIn(disk, DataShards(disk))

\* C4: when fix() runs right after a fix() that returned, the folder holds
\* after the second run the files, with the contents, it held after the first.
C4_FixIdempotent ==
    (Over("fix") /\ prev = [op |-> "fix", outcome |-> "returned"]) =>
        /\ disk = before.disk
        /\ staged = before.staged
        /\ newDir = before.newDir

\* C5: when a call of fix() is over, the data shards are numbered 1 .. k
\* without a gap, and none of them is a file the staging directory held
\* before the call.
C5_ContiguousNumbering ==
    (Over("fix") /\ Plain) =>
        /\ DataShards(disk) = 1..Cardinality(DataShards(disk))
        /\ \A n \in DataShards(disk) :
              ~(n \in DOMAIN before.staged /\ disk[n] = before.staged[n])

\* C6: when a call of add(quote) is over on a folder whose total was T,
\* get_total() gives T + 1 and the quote is the last record of the last data
\* shard (stated for the folders whose last data shard is an array below the
\* cap; a folder without data shards is C8, one with a full last shard C9).
C6_AppendThenTotal ==
    (Over("add") /\ Plain /\ DataShards(before.disk) # {}
        /\ before.disk[LastShard(before.disk)].kind = "list"
        /\ Len(before.disk[LastShard(before.disk)].items) < MAX_QUOTES_PER_FILE) =>
        /\ get_total(disk, staged, strays, <<>>).raise = "none"
        /\ get_total(disk, staged, strays, <<>>).total =
              get_total(before.disk, before.staged, strays, <<>>).total + 1
        /\ DataShards(disk) # {}
        /\ LET last == ShardRecords(disk[LastShard(disk)])
           IN  last # <<>> /\ last[Len(last)] = quote

\* C7: a check() run right after an add() that returned emits no warning.
C7_CheckCleanAfterAdd ==
    (Over("check") /\ prev = [op |-> "add", outcome |-> "returned"]) =>
        outcome = "returned" /\ warns = {}

\* C8: add(quote) on a folder without data shards (empty, or with the header
\* only) succeeds and leaves a header with total 1 and the single data shard
\* 1.json holding exactly the quote.
C8_AddToEmptyFolder ==
    (Over("add") /\ Plain /\ DOMAIN before.staged = {}
        /\ DataShards(before.disk) = {} /\ Records(before.disk) = <<>>) =>
        /\ outcome = "returned"
        /\ DataShards(disk) = {1}
        /\ disk[1] = List(<<quote>>)
        /\ 0 \in DOMAIN disk /\ HasKey(disk[0], "total") /\ disk[0].total = 1

\* C9: add(quote) on a folder whose last data shard N.json holds the cap
\* writes the quote to a new shard (N+1).json: when add is over the shard N
\* is unchanged, (N+1).json holds exactly the quote and the header total is
\* one more than the records the folder held.
C9_AddToFullShard ==
    (Over("add") /\ Plain /\ DataShards(before.disk) # {}
        /\ before.disk[LastShard(before.disk)].kind = "list"
        /\ Len(before.disk[LastShard(before.disk)].items) = MAX_QUOTES_PER_FILE) =>
        LET N == LastShard(before.disk)
        IN  /\ outcome = "returned"
            /\ N + 1 \in DOMAIN disk
            /\ disk[N + 1] = List(<<quote>>)
            /\ N \in DOMAIN disk /\ disk[N] = before.disk[N]
            /\ 0 \in DOMAIN disk /\ HasKey(disk[0], "total")
            /\ disk[0].total = Len(Records(before.disk)) + 1

\* C10: check() on a folder whose files all parse as a JSON object or array
\* and are all named N.json runs to completion, whatever the header and the
\* shards hold: it raises nothing.
C10_CheckNeverRaises ==
    (Over("check") /\ Readable) => outcome = "returned"

(***************************************************************************)
(* Canonical folders and the faults check() looks for.                     *)
(***************************************************************************)
\* The folder has the canonical shape: an object header with a total and no
\* inline items, and data shards that are bare arrays.
Shape(dir) ==
    /\ 0 \in DOMAIN dir
    /\ dir[0].kind = "dict"
    /\ HasKey(dir[0], "total")
    /\ ~HasKey(dir[0], "items")
    /\ \A n \in DataShards(dir) : dir[n].kind = "list"

WrongTotal(dir) == dir[0].total # CountIn(dir, DataShards(dir))

WrongSize(dir) ==
    \E n \in DataShards(dir) :
        \/ Len(dir[n].items) > MAX_QUOTES_PER_FILE
        \/ n # LastShard(dir) /\ Len(dir[n].items) < MAX_QUOTES_PER_FILE

\* The string holds something fix_item replaces.
Abnormal(s) ==
    \/ \E i \in 1..Len(s) : s[i] \in {NBSP, RSQUO}
    \/ \E i \in 1..(Len(s) - 1) :
          \/ s[i] = LAQUO /\ s[i + 1] = SPACE
          \/ s[i] = SPACE /\ s[i + 1] = RAQUO

DirtyText(dir) ==
    \E n \in DataShards(dir) :
        \E i \in 1..Len(dir[n].items) :
            \E j \in 1..Len(dir[n].items[i]) : Abnormal(dir[n].items[i][j])

\* C11: check() on a folder of the canonical shape returns, and it warns of
\* a total mismatch when the header total differs from the record count, of a
\* shard's size when a shard that is not the last holds fewer than the cap or
\* any shard holds more, and of non-ASCII text when a field of a record holds
\* something fix_item replaces.
C11_CheckDetectsFaults ==
    (Over("check") /\ before.strays = <<>> /\ Shape(before.disk)) =>
        /\ outcome = "returned"
        /\ WrongTotal(before.disk) => <<"total_mismatch", 0>> \in warns
        /\ WrongSize(before.disk) =>
              \E n \in DataShards(before.disk) : <<"shard_size", n>> \in warns
        /\ DirtyText(before.disk) =>
              \E n \in DataShards(before.disk) : <<"non_ascii", n>> \in warns

\* C11 happens: check() has run on a folder of the canonical shape with a
\* wrong header total, a short shard that is not the last and a record with
\* a no-break space, and it warned of the three.
C11_Witness ==
    /\ Over("check") /\ before.strays = <<>> /\ Shape(before.disk)
    /\ WrongTotal(before.disk) /\ WrongSize(before.disk) /\ DirtyText(before.disk)
    /\ {w[1] : w \in warns} = {"total_mismatch", "shard_size", "non_ascii"}

\* C12: a check() run right after a fix() that returned returns and emits no
\* warning.
C12_CheckCleanAfterFix ==
    (Over("check") /\ prev = [op |-> "fix", outcome |-> "returned"]) =>
        outcome = "returned" /\ warns = {}

\* C14: get_files() raises nothing because of a file name: it returns, an
\* entry whose name parses as number 0 is neither returned nor warned of,
\* and every other entry whose name is no valid N.json is warned of and is
\* in the list returned (an entry that resolves into the staging path is
\* unlinked before its name is looked at: the claim is not about it).
C14_TolerantEnumeration ==
    Over("get_files") =>
        /\ outcome = "returned"
        /\ \A e \in {x \in Range(before.strays) : x.at = "folder"} :
              IF e.json /\ e.numeric /\ e.number = 0
              THEN e \notin enumerated.invalid
                   /\ <<"invalid_name", e.text>> \notin warns
              ELSE e \in enumerated.invalid
                   /\ <<"invalid_name", e.text>> \in warns

\* C17: when a call of fix() is over on a folder whose header carried inline
\* items (and whose staging directory held nothing), these records are the
\* first of the data shards' records, the header total counts the data
\* shards' records and the header has no `items` key.
C17_HeaderItemsSurvive ==
    (Over("fix") /\ Plain /\ DOMAIN before.staged = {}
        /\ 0 \in DOMAIN before.disk /\ HasKey(before.disk[0], "items")) =>
        LET inline == before.disk[0].items
            data == Concat(disk, SortedSeq(DataShards(disk)))
        IN  /\ Len(data) >= Len(inline)
            /\ SubSeq(data, 1, Len(inline)) = inline
            /\ 0 \in DOMAIN disk
            /\ disk[0].kind = "dict"
            /\ HasKey(disk[0], "total")
            /\ disk[0].total = Len(data)
            /\ ~HasKey(disk[0], "items")

\* What open_file with the list type is to yield for a file: the array, the
\* object's `items` (an empty list without the key), an empty list for a file
\* that does not exist.
AsList(dir, n) ==
    IF n \in DOMAIN dir THEN List(ShardRecords(dir[n])) ELSE List(<<>>)

\* C18: wherever fix() and add() open a file with the list type (the file
\* fix() is about to drain, the staged file fill_file is about to write, the
\* last file add() reads), open_file yields a list: the array, the object's
\* `items` or an empty list.
C18_OpenFileYieldsList ==
    /\ (pc = "fix_drain" /\ files # <<>>
            /\ ReadJson(disk, Head(files)).kind # "corrupt") =>
          open_file(disk, Head(files), ListListStr) = AsList(disk, Head(files))
    /\ (pc = "fix_flush" /\ stack # <<>>
            /\ ReadJson(staged, filename_index).kind # "corrupt") =>
          open_file(staged, filename_index, ListListStr)
              = AsList(staged, filename_index)
    /\ (pc = "add_append" /\ Readable) =>
          LET got == get_files(disk, staged, strays)
          IN  got.files # <<>> =>
                open_file(disk, got.files[Len(got.files)], ListListStr)
                    = AsList(disk, got.files[Len(got.files)])

\* C19 as claimed: when a call of check() is over, returned or not, the
\* folder and the staging directory hold the files, with the contents, they
\* held when it started: check() has created, deleted, renamed and rewritten
\* no file.
C19_CheckReadOnly ==
    Over("check") => Found = before

\* The staged files that a symbolic link among the entries points to.
LinkTargets(dir, entries) ==
    {e.target : e \in {x \in Range(entries) : x.at = "staged"}} \cap DOMAIN dir

\* C19 as amended: when a call of check() is over, returned or not, it has
\* created, renamed and rewritten no file, and it has deleted no file but
\* those an entry of the folder resolves to at the staging path or below it:
\* a regular file named new, and the staged file a symbolic link of the
\* folder points to.  Every other file of the folder and of a leftover
\* staging directory is there with its content; when check() has returned,
\* the files so resolved are gone.
C19_CheckUnlinksOnlyStaging ==
    Over("check") =>
        /\ disk = before.disk
        /\ newDir = before.newDir
        /\ Range(strays) \subseteq Range(before.strays)
        /\ \A e \in Range(before.strays) \ Range(strays) : e.at = "new"
        /\ DOMAIN staged \subseteq DOMAIN before.staged
        /\ \A n \in DOMAIN staged : staged[n] = before.staged[n]
        /\ DOMAIN before.staged \ DOMAIN staged
              \subseteq LinkTargets(before.staged, before.strays)
        /\ outcome = "returned" =>
              /\ \A e \in Range(strays) : e.at # "new"
              /\ LinkTargets(staged, strays) = {}

\* C19 happens: check() has returned on a folder that holds data shards, a
\* link to a staged file and two leftover staged files, and the staged file
\* the link points to is the only file gone.
C19_Witness ==
    /\ Returned("check")
    /\ DataShards(before.disk) # {}
    /\ StrayLink \in Range(before.strays)
    /\ DOMAIN before.staged = {1, 2}
    /\ DOMAIN staged = {2}
    /\ staged[2] = before.staged[2]
    /\ disk = before.disk

\* C20: when fix() has returned, every data shard is an array of at least
\* one record, a folder that held no record holds the header 0.json only, and
\* the staging directory is gone.
C20_NoEmptyShard ==
    (Returned("fix") /\ Plain) =>
        /\ \A n \in DataShards(disk) :
              disk[n].kind = "list" /\ Len(disk[n].items) >= 1
        /\ Records(before.disk) = <<>> => DOMAIN disk = {0}
        /\ ~newDir
        /\ DOMAIN staged = {}

\* The records stored in the files of a directory.
RecordSet(dir) ==
    UNION {{ShardRecords(dir[n])[i] : i \in 1..Len(ShardRecords(dir[n]))} :
              n \in DOMAIN dir}

\* C13: a get_files() run right after a fix() that was killed with its staged
\* header written returns, leaves no file in the staging directory and
\* returns the folder's data shards and nothing else.
C13_CrashRecovery ==
    (Over("get_files") /\ prev = [op |-> "fix", outcome |-> "killed"]
        /\ 0 \in DOMAIN before.staged) =>
        /\ outcome = "returned"
        /\ DOMAIN staged = {}
        /\ enumerated = [files |-> SortedSeq(DataShards(disk)), invalid |-> {}]

\* C16: while fix() runs on a folder of the canonical shape, once it holds
\* records on its stack between two files of the loop, or between the staged
\* header and the last staged shards, some record the folder held when the
\* call started is in no file, neither of the folder nor of the staging
\* directory: a kill at that point loses it.
C16_DataLossWindow ==
    (op = "fix" /\ pc \in {"fix_drain", "fix_flush"} /\ stack # <<>>
        /\ Shape(before.disk)) =>
        \E r \in RecordSet(before.disk) :
            r \notin RecordSet(disk) \cup RecordSet(staged)

\* C16 happens: fix() was killed before its staged header was written, and a
\* record the folder held when it started is in no file.
C16_Witness ==
    /\ Over("fix") /\ outcome = "killed"
    /\ Shape(before.disk)
    /\ 0 \notin DOMAIN staged
    /\ \E r \in RecordSet(before.disk) :
          r \notin RecordSet(disk) \cup RecordSet(staged)

(***************************************************************************)
(* fix_item on its own: it is applied to a string over the characters it   *)
(* reads and writes, then to its own result.                               *)
(***************************************************************************)
Alphabet == {NBSP, SPACE, RSQUO, APOS, LAQUO, RAQUO, DQUOTE}

Strings == UNION {[1..n -> Alphabet] : n \in 0..MaxLen}

InitText ==
    /\ item \in Strings
    /\ fixed = <<>>
    /\ disk = InitDisk(<<>>, "header_absent")
    /\ staged = InitStaged({})
    /\ newDir = FALSE
    /\ strays = <<>>
    /\ op = "none"
    /\ pc = "idle"
    /\ outcome = "none"
    /\ prev = NoOp
    /\ nops = 0
    /\ before = Found
    /\ quote = <<>>
    /\ warns = {}
    /\ files = <<>>
    /\ total = 0
    /\ stack = <<>>
    /\ filename_index = 1
    /\ enumerated = NoFiles
    /\ counted = 0

\* fix_item(item), then fix_item of what it returned.
FixItem ==
    /\ Len(fixed) < 2
    /\ fixed' = Append(fixed, fix_item(IF fixed = <<>> THEN item
                                       ELSE fixed[Len(fixed)]))
    /\ UNCHANGED <<disk, staged, newDir, strays, op, pc, outcome, prev, nops,
                   before, quote, warns, locals, enumerated, counted, item>>

SpecText == InitText /\ [][FixItem]_vars

\* C15: fix_item applied to its own result returns it unchanged:
\* fix_item(fix_item(s)) = fix_item(s) for every string s over the no-break
\* space, the space, the right single quotation mark, the apostrophe, the
\* guillemets and the double quote.
C15_FixItemIdempotent ==
    Len(fixed) = 2 => fixed[2] = fixed[1]

\* C15 happens: fix_item was applied twice to a string in which the first
\* pass replaced a no-break space and joined a guillemet with its space.
C15_Witness ==
    /\ Len(fixed) = 2
    /\ \E i \in 1..(Len(item) - 1) : item[i] = LAQUO /\ item[i + 1] = NBSP
    /\ Len(fixed[1]) < Len(item)
    /\ fixed[2] = fixed[1]

====
